---- MODULE Spec2Model ----
(***************************************************************************)
(* multikuberay: the cluster registry (ClusterIndexer), the port allocator *)
(* (PortAllocater) and the tunnel supervisor tasks (PortForward).          *)
(*                                                                         *)
(* Spec      the registry API called one call after the other.             *)
(* SpecTunnel  the same, interleaved with the steps of the tunnel          *)
(*           supervisor goroutines that Insert starts.                     *)
(* SpecConc  the same calls issued by concurrent goroutines, stepped at    *)
(*           the statements where the code takes or releases c.m and p.m;  *)
(*           FairConc adds the scheduling of goroutines and locks.         *)
(* SpecList  the registry API together with List() and a caller that       *)
(*           mutates the returned value.                                   *)
(* SpecBackoff  one tunnel supervisor and its backoff schedule.            *)
(* SpecAlloc  Allocate and Deallocate called on the port allocator.        *)
(* SpecMatch  FuzzyMatch called on registries of overlapping names.        *)
(* SpecProxy  addBase applied to the responses of the reverse proxy.       *)
(* SpecDiscovery  watchClients, WatchAllContexts and the watchRayClusters  *)
(*           reconcilers; FairDiscovery adds the scheduling of goroutines. *)
(* SpecWatch  the reconcilers of one context that stays listed.            *)
(* SpecReadd  contexts that leave the listing and come back.               *)
(***************************************************************************)
EXTENDS Integers, Sequences, FiniteSets, TLC

\* ---- bounds of the model ----
MaxContexts == 2
MaxUids == 2
MaxNames == 2
MaxTunnels == 2
MaxProcs == 2
MaxWatches == 2
MaxVersion == 2

\* NewPortAllocater(8270)
allocStart == 8270

\* PortForward: the backoff constants, in milliseconds
initBackoff == 10
maxBackoff == 30000
quietWindow == 60000

Contexts == 1..MaxContexts
UIDs == 1..MaxUids
\* a cluster name is a sequence of characters; the names used are the
\* prefixes <<1>>, <<1,1>>, ... of one another
Names == {[i \in 1..n |-> 1] : n \in 1..MaxNames}
TunnelIds == 1..MaxTunnels
Procs == 1..MaxProcs

VARIABLES
    allocated,       \* PortAllocater.allocated: the set of taken ports
    mapping,         \* PortAllocater.mapping: uid -> port
    clusterTree,     \* ClusterIndexer.clusterTree: context -> uid -> handle
    forwardStopFns,  \* ClusterIndexer.forwardStopFns: uid -> the tunnel its cancel func stops
    tunnels,         \* the PortForward goroutines started so far
    heap,            \* the int variables that the handles' Port fields point to
    crashed,         \* an unrecovered panic or runtime fatal error ended the process
    m,               \* ClusterIndexer.m: 0 when free, else the goroutine holding it
    calls,           \* per goroutine: the registry call it is executing and where
    snapshot,        \* the value a caller got from List() and how often it changed it
    lastCall,        \* history: the call made last and how many of the handles it
                     \* was about it found stored (of an allocator call: its port)
    resp,            \* the upstream response the reverse proxy hands to addBase,
                     \* before and after the call
    watcher,         \* the goroutine of watchClients: prevClients and the events
                     \* it has still to send
    watchClusterStopFns,  \* WatchAllContexts: context -> the watch its cancel func stops
    watches,         \* per 'added' event: the watchCtx, the two reconcilers and
                     \* the goroutine that waits to call DeleteContext
    pm,              \* PortAllocater.m: 0 when free, else the goroutine holding it
    readers          \* the goroutines holding ClusterIndexer.m for reading

\* the state of context discovery
discVars == <<watcher, watchClusterStopFns, watches>>

\* the allocator's lock and the read side of the registry's lock
lockVars == <<pm, readers>>

\* the state outside the registry
ext == <<resp, discVars, lockVars>>

vars == <<allocated, mapping, clusterTree, forwardStopFns, tunnels, heap,
          crashed, m, calls, snapshot, lastCall, ext>>

regVars == <<allocated, mapping, clusterTree, forwardStopFns, tunnels, heap, crashed>>

\* ---- Go maps as functions with a finite domain ----
EmptyMap == <<>>

Put(f, k, v) == [x \in (DOMAIN f) \cup {k} |-> IF x = k THEN v ELSE f[x]]

Remove(f, k) == [x \in (DOMAIN f) \ {k} |-> f[x]]

Image(f) == {f[x] : x \in DOMAIN f}

\* ---- the state of the registry and its allocator as one value ----
Reg ==
    [allocated |-> allocated, mapping |-> mapping, tree |-> clusterTree,
     stopFns |-> forwardStopFns, tunnels |-> tunnels, heap |-> heap,
     crashed |-> crashed]

SetReg(r) ==
    /\ allocated' = r.allocated
    /\ mapping' = r.mapping
    /\ clusterTree' = r.tree
    /\ forwardStopFns' = r.stopFns
    /\ tunnels' = r.tunnels
    /\ heap' = r.heap
    /\ crashed' = r.crashed

\* a handle as a reconciler passes it to Insert: Port is nil (0)
RayClusterHandle(c, u, n) ==
    [ContextName |-> c, UID |-> u, RayClusterName |-> n, Port |-> 0]

\* makeHandle: the name comes from the service (its label or its name), so
\* every handle built for a uid carries the same name
NameOf(u) == [i \in 1..(((u - 1) % MaxNames) + 1) |-> 1]

InputHandles == {RayClusterHandle(c, u, NameOf(u)) : c \in Contexts, u \in UIDs}

\* ---- PortAllocater ----
RECURSIVE Scan(_, _)
Scan(taken, port) == IF port \notin taken THEN port ELSE Scan(taken, port + 1)

FirstFree_AboveHighest(taken) ==
    IF taken = {}
    THEN allocStart
    ELSE (CHOOSE p \in taken : \A q \in taken : q <= p) + 1

\* the scan "for port := p.allocStart; ; port++" stops at the first free port
FirstFree(taken) == Scan(taken, allocStart)

Allocate(r, uid) ==
    IF uid \in DOMAIN r.mapping
    THEN r
    ELSE LET port == FirstFree(r.allocated)
         IN [r EXCEPT !.allocated = @ \cup {port},
                      !.mapping = Put(@, uid, port)]

Deallocate_KeepsPortTaken(r, uid) ==
    IF uid \notin DOMAIN r.mapping
    THEN r
    ELSE [r EXCEPT !.mapping = Remove(@, uid)]

Deallocate(r, uid) ==
    IF uid \notin DOMAIN r.mapping
    THEN r
    ELSE [r EXCEPT !.allocated = @ \ {r.mapping[uid]},
                   !.mapping = Remove(@, uid)]

\* ---- ClusterIndexer ----
NewClusterIndexer ==
    [allocated |-> {}, mapping |-> EmptyMap, tree |-> EmptyMap,
     stopFns |-> EmptyMap, tunnels |-> EmptyMap, heap |-> EmptyMap,
     crashed |-> FALSE]

\* the duplicate check at the top of Insert
Present(tree, c, u) == c \in DOMAIN tree /\ u \in DOMAIN tree[c]

\* the uid is stored under some context
Stored(tree, u) == \E c \in DOMAIN tree : u \in DOMAIN tree[c]

storeCluster(tree, handle) ==
    LET sub == IF handle.ContextName \in DOMAIN tree
               THEN tree[handle.ContextName] ELSE EmptyMap
    IN Put(tree, handle.ContextName, Put(sub, handle.UID, handle))

\* id of the next PortForward goroutine; also the address of the port
\* variable that Insert takes the address of
NextId(r) == Cardinality(DOMAIN r.tunnels) + 1

\* context.Background(), the context of a caller that is never cancelled
Background == [id |-> 0, cancelled |-> FALSE]

\* Insert from c.m.Lock() to its return; ctx is the context passed to Insert
\* and whether it is cancelled at the call: the tunnel's context is its child
InsertLockedCtx(r, ctx, cluster) ==
    LET a == Allocate(r, cluster.UID)
        port == a.mapping[cluster.UID]
        id == NextId(r)
        stored == [cluster EXCEPT !.Port = id]
    IN [a EXCEPT !.heap = Put(@, id, port),
                 !.tree = storeCluster(@, stored),
                 !.tunnels = Put(@, id, [uid |-> cluster.UID, port |-> port,
                                         ContextName |-> cluster.ContextName,
                                         ctx |-> ctx.id,
                                         cancelled |-> ctx.cancelled, pc |-> "check",
                                         backoff |-> initBackoff, slept |-> 0]),
                 !.stopFns = Put(@, cluster.UID, id)]

InsertLocked(r, cluster) == InsertLockedCtx(r, Background, cluster)

\* Insert(ctx, cluster)
InsertCtx(r, ctx, cluster) ==
    IF Present(r.tree, cluster.ContextName, cluster.UID)
    THEN r
    ELSE InsertLockedCtx(r, ctx, cluster)

InsertOp_NoDuplicateCheck(r, cluster) == InsertLocked(r, cluster)

\* Insert called with a context that is never cancelled
InsertOp(r, cluster) == InsertCtx(r, Background, cluster)

\* Delete, statement by statement
DeleteDeallocate(r, uid) == Deallocate(r, uid)

\* c.forwardStopFns[uid]() then delete(c.forwardStopFns, uid); calling the nil
\* func of a missing key panics
DeleteStop(r, uid) ==
    IF uid \notin DOMAIN r.stopFns
    THEN [r EXCEPT !.crashed = TRUE]
    ELSE [r EXCEPT !.tunnels[r.stopFns[uid]].cancelled = TRUE,
                   !.stopFns = Remove(@, uid)]

DeleteTree_KeepsHandle(r, contextName, uid) == r

DeleteTree(r, contextName, uid) ==
    IF contextName \notin DOMAIN r.tree
    THEN r
    ELSE [r EXCEPT !.tree[contextName] = Remove(@, uid)]

DeleteOp(r, contextName, uid) ==
    LET r1 == DeleteStop(DeleteDeallocate(r, uid), uid)
    IN IF r1.crashed THEN r1 ELSE DeleteTree(r1, contextName, uid)

\* the loop of DeleteContext over the uids in the order the map range yields them
RECURSIVE DeleteAll(_, _, _)
DeleteAll(r, name, order) ==
    IF order = <<>> \/ r.crashed
    THEN r
    ELSE DeleteAll(DeleteOp(r, name, Head(order)), name, Tail(order))

DeleteContextDrop(r, name) == [r EXCEPT !.tree = Remove(@, name)]

DeleteContextOp_DropOnly(r, name, order) == DeleteContextDrop(r, name)

DeleteContextOp(r, name, order) ==
    LET r1 == DeleteAll(r, name, order)
    IN IF r1.crashed THEN r1 ELSE DeleteContextDrop(r1, name)

\* List: a new outer map holding maps.Clone of every inner map
List(r) == [name \in DOMAIN r.tree |-> [u \in DOMAIN r.tree[name] |-> r.tree[name][u]]]

\* strings.HasPrefix
HasPrefix_WholeName(s, prefix) == s = prefix

HasPrefix(s, prefix) ==
    /\ Len(prefix) <= Len(s)
    /\ SubSeq(s, 1, Len(prefix)) = prefix

\* the (context, uid) keys of the tree
Entries(tree) == {e \in (DOMAIN tree) \X UIDs : e[2] \in DOMAIN tree[e[1]]}

\* FuzzyMatch: the nested ranges yield the entries in order; every handle
\* whose name has the prefix is appended to the result
RECURSIVE FuzzyMatch(_, _, _)
FuzzyMatch(tree, in, order) ==
    IF order = <<>>
    THEN <<>>
    ELSE LET cluster == tree[Head(order)[1]][Head(order)[2]]
             rest == FuzzyMatch(tree, in, Tail(order))
         IN IF HasPrefix(cluster.RayClusterName, in)
            THEN <<cluster>> \o rest
            ELSE rest

\* the orders in which a range over a map can yield its keys
Orders(S) == {o \in [1..Cardinality(S) -> S] : \A i, j \in DOMAIN o : i # j => o[i] # o[j]}

\* the orders in which the nested ranges of FuzzyMatch can yield the entries:
\* the entries of one context come one after the other
RangeOrders(tree) ==
    {o \in Orders(Entries(tree)) :
        \A i, j, k \in DOMAIN o :
            (i < j /\ j < k /\ o[i][1] = o[k][1]) => o[j][1] = o[i][1]}

UidsUnder(tree, name) == IF name \in DOMAIN tree THEN DOMAIN tree[name] ELSE {}

\* a goroutine that is in no registry call
Idle == [pc |-> "idle"]

\* ---- the reverse proxy: addBase ----
\* a response as addBase sees it: the Content-Type and Content-Length headers
\* and the bytes of the body
Response(typ, body) == [ContentType |-> typ, ContentLength |-> Len(body), Body |-> body]

NoResponse ==
    [slug |-> 0, in |-> Response(<<>>, <<>>), out |-> Response(<<>>, <<>>), done |-> FALSE]

TextHtml == <<"t", "e", "x", "t", "/", "h", "t", "m", "l">>

HeadTag == <<"<", "h", "e", "a", "d", ">">>

\* the text of a uid in the URL
UidText(u) == [i \in 1..u |-> "u"]

\* fmt.Sprintf(`<head><base href="/proxy/%s/"/>`, slug)
snippet(slug) ==
    HeadTag \o <<"<", "b", "a", "s", "e", " ", "h", "r", "e", "f", "=", "\"", "/", "p", "r", "o", "x", "y", "/">>
            \o UidText(slug) \o <<"/", "\"", "/", ">">>

\* bytes.Index: the position of the first occurrence of sep in s, 0 when none
Index(s, sep) ==
    LET at == {i \in 1..(Len(s) - Len(sep) + 1) : SubSeq(s, i, i + Len(sep) - 1) = sep}
    IN IF at = {} THEN 0 ELSE CHOOSE i \in at : \A j \in at : i <= j

\* bytes.Cut
Cut(s, sep) ==
    LET i == Index(s, sep)
    IN IF i = 0
       THEN [before |-> s, after |-> <<>>, found |-> FALSE]
       ELSE [before |-> SubSeq(s, 1, i - 1),
             after |-> SubSeq(s, i + Len(sep), Len(s)),
             found |-> TRUE]

addBase_StaleLength(slug, r) ==
    IF ~HasPrefix(r.ContentType, TextHtml)
    THEN r
    ELSE LET cut == Cut(r.Body, HeadTag)
         IN IF ~cut.found
            THEN r
            ELSE [r EXCEPT !.Body = cut.before \o snippet(slug) \o cut.after]

\* the function addBase(slug) returns, applied to a response
addBase(slug, r) ==
    IF ~HasPrefix(r.ContentType, TextHtml)
    THEN r
    ELSE LET cut == Cut(r.Body, HeadTag)
             newBody == cut.before \o snippet(slug) \o cut.after
         IN IF ~cut.found
            THEN r
            ELSE [r EXCEPT !.Body = newBody, !.ContentLength = Len(newBody)]

\* ---- initial state ----
InitRegistry ==
    /\ allocated = NewClusterIndexer.allocated
    /\ mapping = NewClusterIndexer.mapping
    /\ clusterTree = NewClusterIndexer.tree
    /\ forwardStopFns = NewClusterIndexer.stopFns
    /\ tunnels = NewClusterIndexer.tunnels
    /\ heap = NewClusterIndexer.heap
    /\ crashed = FALSE
    /\ m = 0
    /\ pm = 0
    /\ readers = {}
    /\ calls = [p \in Procs |-> Idle]
    /\ snapshot = [taken |-> FALSE, value |-> EmptyMap, mutations |-> 0]
    /\ lastCall = [op |-> "none", found |-> 0]

InitDiscovery ==
    /\ watcher = [started |-> FALSE, prevClients |-> {}, toAdd |-> {}, toDelete |-> {},
                  ok |-> TRUE, listed |-> {}]
    /\ watchClusterStopFns = EmptyMap
    /\ watches = EmptyMap

Init ==
    /\ InitRegistry
    /\ resp = NoResponse
    /\ InitDiscovery

\* ---- the registry API, one call after the other ----
Insert(cluster) ==
    /\ ~crashed
    /\ Present(clusterTree, cluster.ContextName, cluster.UID) \/ NextId(Reg) \in TunnelIds
    /\ SetReg(InsertOp(Reg, cluster))
    /\ lastCall' = [op |-> "Insert",
                    found |-> IF Present(clusterTree, cluster.ContextName, cluster.UID)
                              THEN 1 ELSE 0]
    /\ UNCHANGED <<m, calls, snapshot, ext>>

Delete(contextName, uid) ==
    /\ ~crashed
    /\ SetReg(DeleteOp(Reg, contextName, uid))
    /\ lastCall' = [op |-> "Delete", found |-> IF Stored(clusterTree, uid) THEN 1 ELSE 0]
    /\ UNCHANGED <<m, calls, snapshot, ext>>

DeleteContext(name) ==
    /\ ~crashed
    /\ \E order \in Orders(UidsUnder(clusterTree, name)) :
           SetReg(DeleteContextOp(Reg, name, order))
    /\ lastCall' = [op |-> "DeleteContext",
                    found |-> Cardinality(UidsUnder(clusterTree, name))]
    /\ UNCHANGED <<m, calls, snapshot, ext>>

\* ---- PortForward: the supervisor goroutine of one tunnel ----
\* "for ctx.Err() == nil" with a live token: exec.CommandContext starts kubectl
PortForwardLaunch(t) ==
    /\ ~crashed
    /\ t \in DOMAIN tunnels
    /\ tunnels[t].pc = "check" /\ ~tunnels[t].cancelled
    /\ tunnels' = [tunnels EXCEPT ![t].pc = "run"]
    /\ UNCHANGED <<allocated, mapping, clusterTree, forwardStopFns, heap, crashed, m, calls, snapshot, lastCall, ext>>

\* the loop condition fails once the token is cancelled
PortForwardReturn(t) ==
    /\ ~crashed
    /\ t \in DOMAIN tunnels
    /\ tunnels[t].pc = "check" /\ tunnels[t].cancelled
    /\ tunnels' = [tunnels EXCEPT ![t].pc = "done"]
    /\ UNCHANGED <<allocated, mapping, clusterTree, forwardStopFns, heap, crashed, m, calls, snapshot, lastCall, ext>>

\* kubectl exits with status 0: "if err == nil { continue }"
PortForwardExitOk(t) ==
    /\ ~crashed
    /\ t \in DOMAIN tunnels
    /\ tunnels[t].pc = "run"
    /\ tunnels' = [tunnels EXCEPT ![t].pc = "check"]
    /\ UNCHANGED <<allocated, mapping, clusterTree, forwardStopFns, heap, crashed, m, calls, snapshot, lastCall, ext>>

\* the times, in milliseconds, that pass between the end of a backoff sleep
\* (or the start of the task) and the next failure of kubectl
RunTimes == {0, quietWindow - maxBackoff, quietWindow - maxBackoff + 1,
             quietWindow, quietWindow + 1}

Min(a, b) == IF a <= b THEN a ELSE b

Max(a, b) == IF a >= b THEN a ELSE b

\* the delay after a failure that comes gap milliseconds after lastErr
NextBackoff_Max(backoff, gap) ==
    IF gap > quietWindow THEN initBackoff ELSE Max(2 * backoff, maxBackoff)

NextBackoff(backoff, gap) ==
    IF gap > quietWindow THEN initBackoff ELSE Min(2 * backoff, maxBackoff)

\* kubectl fails or is killed by the cancelled token, ran milliseconds after
\* the last sleep ended: return when cancelled, else compute the delay from
\* now.Sub(lastErr), the last sleep plus ran, and go to sleep
PortForwardExitErr(t, ran) ==
    /\ ~crashed
    /\ t \in DOMAIN tunnels
    /\ tunnels[t].pc = "run"
    /\ tunnels' = IF tunnels[t].cancelled
                  THEN [tunnels EXCEPT ![t].pc = "done"]
                  ELSE LET backoff == NextBackoff(tunnels[t].backoff, tunnels[t].slept + ran)
                       IN [tunnels EXCEPT ![t].pc = "sleep",
                                          ![t].backoff = backoff,
                                          ![t].slept = backoff]
    /\ UNCHANGED <<allocated, mapping, clusterTree, forwardStopFns, heap, crashed, m, calls, snapshot, lastCall, ext>>

\* "<-time.After(backoff)" elapses
PortForwardWake(t) ==
    /\ ~crashed
    /\ t \in DOMAIN tunnels
    /\ tunnels[t].pc = "sleep"
    /\ tunnels' = [tunnels EXCEPT ![t].pc = "check"]
    /\ UNCHANGED <<allocated, mapping, clusterTree, forwardStopFns, heap, crashed, m, calls, snapshot, lastCall, ext>>

Next ==
    \/ \E cluster \in InputHandles : Insert(cluster)
    \/ \E c \in Contexts, u \in UIDs : Delete(c, u)
    \/ \E c \in Contexts : DeleteContext(c)

Spec == Init /\ [][Next]_vars

\* ============ SpecTunnel: the registry calls and the tunnel goroutines ============
NextTunnel ==
    \/ \E cluster \in InputHandles : Insert(cluster)
    \/ \E c \in Contexts, u \in UIDs : Delete(c, u)
    \/ \E c \in Contexts : DeleteContext(c)
    \/ \E t \in TunnelIds : PortForwardLaunch(t)
    \/ \E t \in TunnelIds : PortForwardReturn(t)
    \/ \E t \in TunnelIds : PortForwardExitOk(t)
    \/ \E t \in TunnelIds, ran \in RunTimes : PortForwardExitErr(t, ran)
    \/ \E t \in TunnelIds : PortForwardWake(t)

SpecTunnel == Init /\ [][NextTunnel]_vars

\* ============ SpecBackoff: one tunnel supervisor from Insert to Delete ============
NextBackoffStep ==
    \/ \E cluster \in InputHandles : tunnels = EmptyMap /\ Insert(cluster)
    \/ \E c \in Contexts, u \in UIDs : Stored(clusterTree, u) /\ Delete(c, u)
    \/ \E t \in TunnelIds : PortForwardLaunch(t)
    \/ \E t \in TunnelIds : PortForwardReturn(t)
    \/ \E t \in TunnelIds : PortForwardExitOk(t)
    \/ \E t \in TunnelIds, ran \in RunTimes : PortForwardExitErr(t, ran)
    \/ \E t \in TunnelIds : PortForwardWake(t)

SpecBackoff == Init /\ [][NextBackoffStep]_vars

\* ============ SpecConc: the registry calls as concurrent goroutines ============
\* The callers are the reconcilers and the teardown goroutine of
\* WatchAllContexts: a service uid belongs to one context, and Insert and
\* Delete are called with the context the service was seen in.
Home(u) == ((u - 1) % MaxContexts) + 1


\* the goroutine holds c.m and its next statement writes the outer map
WritesOuter(q) ==
    /\ m = q
    /\ \/ calls[q].pc = "I_body" /\ calls[q].ContextName \notin DOMAIN clusterTree
       \/ calls[q].pc = "DC_drop"

\* the goroutine holds c.m and its next statement writes the inner map of name
WritesInner(q, name) ==
    /\ m = q
    /\ calls[q].pc \in {"I_body", "D_tree"}
    /\ calls[q].ContextName = name
    /\ calls[q].pc = "D_tree" => name \in DOMAIN clusterTree

\* an unlocked read of the tree for context name overlaps a write
RacesWithWriter(p, name) ==
    \E q \in Procs \ {p} :
        WritesOuter(q) \/ (name \in DOMAIN clusterTree /\ WritesInner(q, name))

InsertsInFlight == {q \in Procs : calls[q].pc \in {"I_lock", "I_alloc", "I_body"}}

\* Insert, the duplicate check made before c.m.Lock()
InsertCheck(p, cluster) ==
    /\ ~crashed
    /\ calls[p] = Idle
    /\ cluster.ContextName = Home(cluster.UID)
    /\ IF Present(clusterTree, cluster.ContextName, cluster.UID)
       THEN UNCHANGED calls
       ELSE /\ Cardinality(DOMAIN tunnels) + Cardinality(InsertsInFlight) < MaxTunnels
            /\ calls' = [calls EXCEPT ![p] =
                   [pc |-> "I_lock", op |-> "Insert", ContextName |-> cluster.ContextName,
                    UID |-> cluster.UID, cluster |-> cluster]]
    /\ UNCHANGED <<regVars, m, snapshot, lastCall, ext>>

\* the unlocked map read overlaps a map write: the Go runtime may stop the
\* process with "concurrent map read and map write"
InsertCheckFatal(p, cluster) ==
    /\ ~crashed
    /\ calls[p] = Idle
    /\ cluster.ContextName = Home(cluster.UID)
    /\ RacesWithWriter(p, cluster.ContextName)
    /\ crashed' = TRUE
    /\ UNCHANGED <<allocated, mapping, clusterTree, forwardStopFns, tunnels, heap,
                   m, calls, snapshot, lastCall, ext>>

\* c.m.Lock(): no writer and no reader holds the lock
InsertLock(p) ==
    /\ ~crashed
    /\ calls[p].pc = "I_lock"
    /\ m = 0 /\ readers = {}
    /\ m' = p
    /\ calls' = [calls EXCEPT ![p].pc = "I_alloc"]
    /\ UNCHANGED <<regVars, snapshot, lastCall, ext>>

\* c.portAlloc.Allocate(cluster.UID) takes p.m
InsertAllocLock(p) ==
    /\ ~crashed
    /\ calls[p].pc = "I_alloc"
    /\ pm = 0
    /\ pm' = p
    /\ calls' = [calls EXCEPT ![p].pc = "I_body"]
    /\ UNCHANGED <<regVars, m, snapshot, lastCall, resp, discVars, readers>>

\* Allocate and its deferred p.m.Unlock(), storeCluster, go PortForward,
\* record cancel, the deferred c.m.Unlock()
InsertBody(p) ==
    /\ ~crashed
    /\ calls[p].pc = "I_body"
    /\ SetReg(InsertLocked(Reg, calls[p].cluster))
    /\ m' = 0
    /\ pm' = 0
    /\ calls' = [calls EXCEPT ![p] = Idle]
    /\ UNCHANGED <<snapshot, lastCall, resp, discVars, readers>>

\* c.m.Lock() of Delete, called by a reconciler (from = "idle") or by the
\* loop of DeleteContext (from = "DC_call")
DeleteLock(p, contextName, uid) ==
    /\ ~crashed
    /\ m = 0 /\ readers = {}
    /\ \/ /\ calls[p] = Idle
          /\ contextName = Home(uid)
          /\ calls' = [calls EXCEPT ![p] =
                 [pc |-> "D_alloc", op |-> "Delete", ContextName |-> contextName, UID |-> uid,
                  hadPort |-> uid \in DOMAIN mapping,
                  hadHandle |-> Present(clusterTree, contextName, uid)]]
       \/ /\ calls[p].pc = "DC_call"
          /\ contextName = calls[p].ContextName
          /\ uid = calls[p].UID
          /\ calls' = [calls EXCEPT ![p].pc = "D_alloc",
                                    ![p].hadPort = uid \in DOMAIN mapping,
                                    ![p].hadHandle = Present(clusterTree, contextName, uid)]
    /\ m' = p
    /\ UNCHANGED <<regVars, snapshot, lastCall, ext>>

\* c.portAlloc.Deallocate(uid) takes p.m
DeleteAllocLock(p) ==
    /\ ~crashed
    /\ calls[p].pc = "D_alloc"
    /\ pm = 0
    /\ pm' = p
    /\ calls' = [calls EXCEPT ![p].pc = "D_dealloc"]
    /\ UNCHANGED <<regVars, m, snapshot, lastCall, resp, discVars, readers>>

\* Deallocate and its deferred p.m.Unlock()
DeleteDeallocateStep(p) ==
    /\ ~crashed
    /\ calls[p].pc = "D_dealloc"
    /\ SetReg(DeleteDeallocate(Reg, calls[p].UID))
    /\ pm' = 0
    /\ calls' = [calls EXCEPT ![p].pc = "D_stop"]
    /\ UNCHANGED <<m, snapshot, lastCall, resp, discVars, readers>>

DeleteStopStep(p) ==
    /\ ~crashed
    /\ calls[p].pc = "D_stop"
    /\ SetReg(DeleteStop(Reg, calls[p].UID))
    /\ calls' = [calls EXCEPT ![p].pc = "D_tree"]
    /\ UNCHANGED <<m, snapshot, lastCall, ext>>

\* a range in progress over the inner map no longer has to yield a deleted key
Forget(call, contextName, uid) ==
    IF call.pc # "idle" /\ call.op = "DeleteContext" /\ call.ContextName = contextName
    THEN [call EXCEPT !.start = @ \ {uid}]
    ELSE call

\* the removal from the tree and the deferred Unlock
DeleteTreeStep(p) ==
    /\ ~crashed
    /\ calls[p].pc = "D_tree"
    /\ SetReg(DeleteTree(Reg, calls[p].ContextName, calls[p].UID))
    /\ m' = 0
    /\ calls' = [q \in Procs |->
                   IF q = p
                   THEN IF calls[p].op = "DeleteContext"
                        THEN [Forget(calls[p], calls[p].ContextName, calls[p].UID)
                                 EXCEPT !.pc = "DC_range"]
                        ELSE Idle
                   ELSE Forget(calls[q], calls[p].ContextName, calls[p].UID)]
    /\ UNCHANGED <<snapshot, lastCall, ext>>

Sweeping(name) ==
    \E q \in Procs : calls[q].pc # "idle" /\ calls[q].op = "DeleteContext"
                     /\ calls[q].ContextName = name

DeleteContextStart_HoldsLock(p, name) ==
    /\ ~crashed
    /\ calls[p] = Idle
    /\ ~Sweeping(name)
    /\ m = 0 /\ readers = {}
    /\ m' = p
    /\ calls' = [calls EXCEPT ![p] =
           [pc |-> "DC_range", op |-> "DeleteContext", ContextName |-> name, UID |-> 0,
            ranged |-> name \in DOMAIN clusterTree,
            start |-> UidsUnder(clusterTree, name), visited |-> {},
            hadPort |-> FALSE, hadHandle |-> FALSE]]
    /\ UNCHANGED <<regVars, snapshot, lastCall, ext>>

\* DeleteContext evaluates c.clusterTree[name] and starts to range over it
DeleteContextStart(p, name) ==
    /\ ~crashed
    /\ calls[p] = Idle
    /\ ~Sweeping(name)
    /\ calls' = [calls EXCEPT ![p] =
           [pc |-> "DC_range", op |-> "DeleteContext", ContextName |-> name, UID |-> 0,
            ranged |-> name \in DOMAIN clusterTree,
            start |-> UidsUnder(clusterTree, name), visited |-> {},
            hadPort |-> FALSE, hadHandle |-> FALSE]]
    /\ UNCHANGED <<regVars, m, snapshot, lastCall, ext>>

\* the unlocked range yields a key it has not yielded yet: a key stored
\* since the range began may or may not be yielded
DeleteContextRange(p) ==
    /\ ~crashed
    /\ calls[p].pc = "DC_range"
    /\ calls[p].ranged
    /\ \E uid \in UidsUnder(clusterTree, calls[p].ContextName) \ calls[p].visited :
           calls' = [calls EXCEPT ![p].pc = "DC_call", ![p].UID = uid,
                                  ![p].visited = @ \cup {uid}]
    /\ UNCHANGED <<regVars, m, snapshot, lastCall, ext>>

\* the range ends: every key that was there from the start has been yielded
DeleteContextRangeEnd(p) ==
    /\ ~crashed
    /\ calls[p].pc = "DC_range"
    /\ calls[p].ranged =>
          (calls[p].start \cap UidsUnder(clusterTree, calls[p].ContextName)) \subseteq calls[p].visited
    /\ calls' = [calls EXCEPT ![p].pc = "DC_lock"]
    /\ UNCHANGED <<regVars, m, snapshot, lastCall, ext>>

\* the unlocked range overlaps a map write: "concurrent map iteration and
\* map write"
DeleteContextRangeFatal(p) ==
    /\ ~crashed
    /\ calls[p].pc = "DC_range"
    /\ RacesWithWriter(p, calls[p].ContextName)
    /\ crashed' = TRUE
    /\ UNCHANGED <<allocated, mapping, clusterTree, forwardStopFns, tunnels, heap,
                   m, calls, snapshot, lastCall, ext>>

DeleteContextLock(p) ==
    /\ ~crashed
    /\ calls[p].pc = "DC_lock"
    /\ m = 0 /\ readers = {}
    /\ m' = p
    /\ calls' = [calls EXCEPT ![p].pc = "DC_drop"]
    /\ UNCHANGED <<regVars, snapshot, lastCall, ext>>

\* delete(c.clusterTree, name) and the deferred Unlock
DeleteContextDropStep(p) ==
    /\ ~crashed
    /\ calls[p].pc = "DC_drop"
    /\ SetReg(DeleteContextDrop(Reg, calls[p].ContextName))
    /\ m' = 0
    /\ calls' = [calls EXCEPT ![p] = Idle]
    /\ UNCHANGED <<snapshot, lastCall, ext>>

\* c.m.RLock() of List and of FuzzyMatch: no writer holds the lock and none
\* is blocked in Lock()
ReadLock(p, op) ==
    /\ ~crashed
    /\ calls[p] = Idle
    /\ m = 0
    /\ \A q \in Procs : calls[q].pc \notin {"I_lock", "DC_call", "DC_lock"}
    /\ readers' = readers \cup {p}
    /\ calls' = [calls EXCEPT ![p] = [pc |-> "R_read", op |-> op]]
    /\ UNCHANGED <<regVars, m, snapshot, lastCall, resp, discVars, pm>>

\* the reads of the tree and the deferred c.m.RUnlock()
ReadUnlock(p) ==
    /\ ~crashed
    /\ calls[p].pc = "R_read"
    /\ readers' = readers \ {p}
    /\ calls' = [calls EXCEPT ![p] = Idle]
    /\ UNCHANGED <<regVars, m, snapshot, lastCall, resp, discVars, pm>>

\* the handles the concurrent callers pass
ConcHandles == {RayClusterHandle(Home(u), u, NameOf(u)) : u \in UIDs}

NextConc ==
    \/ \E p \in Procs, cluster \in ConcHandles : InsertCheck(p, cluster)
    \/ \E p \in Procs, cluster \in ConcHandles : InsertCheckFatal(p, cluster)
    \/ \E p \in Procs : InsertLock(p)
    \/ \E p \in Procs : InsertAllocLock(p)
    \/ \E p \in Procs : InsertBody(p)
    \/ \E p \in Procs, c \in Contexts, u \in UIDs : DeleteLock(p, c, u)
    \/ \E p \in Procs : DeleteAllocLock(p)
    \/ \E p \in Procs : DeleteDeallocateStep(p)
    \/ \E p \in Procs : DeleteStopStep(p)
    \/ \E p \in Procs : DeleteTreeStep(p)
    \/ \E p \in Procs, c \in Contexts : DeleteContextStart(p, c)
    \/ \E p \in Procs : DeleteContextRange(p)
    \/ \E p \in Procs : DeleteContextRangeEnd(p)
    \/ \E p \in Procs : DeleteContextRangeFatal(p)
    \/ \E p \in Procs : DeleteContextLock(p)
    \/ \E p \in Procs : DeleteContextDropStep(p)
    \/ \E p \in Procs, op \in {"List", "FuzzyMatch"} : ReadLock(p, op)
    \/ \E p \in Procs : ReadUnlock(p)

SpecConc == Init /\ [][NextConc]_vars

\* the steps by which goroutine p goes on with the call it is in
ProcStep(p) ==
    \/ InsertLock(p)
    \/ InsertAllocLock(p)
    \/ InsertBody(p)
    \/ calls[p].pc = "DC_call" /\ DeleteLock(p, calls[p].ContextName, calls[p].UID)
    \/ DeleteAllocLock(p)
    \/ DeleteDeallocateStep(p)
    \/ DeleteStopStep(p)
    \/ DeleteTreeStep(p)
    \/ DeleteContextRange(p)
    \/ DeleteContextRangeEnd(p)
    \/ DeleteContextLock(p)
    \/ DeleteContextDropStep(p)
    \/ ReadUnlock(p)

\* every goroutine keeps being scheduled, and sync.Mutex hands the lock to a
\* goroutine that keeps waiting for it (starvation mode)
FairConc == SpecConc /\ \A p \in Procs : SF_vars(ProcStep(p))

\* ============ SpecList: List() and a caller that mutates its result ============
MaxMutations == 2

\* the values a caller writes into the int a Port field points to
WrittenPorts == {0, 1}

\* what List() and FuzzyMatch() report of a tree: every handle with the
\* value its Port points to
Reported(tree, hp) ==
    [name \in DOMAIN tree |->
        [u \in DOMAIN tree[name] |->
            [tree[name][u] EXCEPT !.Port = IF @ = 0 THEN "nil" ELSE hp[@]]]]

ListCall ==
    /\ ~crashed
    /\ snapshot' = [taken |-> TRUE, value |-> List(Reg), mutations |-> 0]
    /\ lastCall' = [op |-> "List", found |-> 0]
    /\ UNCHANGED <<regVars, m, calls, ext>>

CanMutate == ~crashed /\ snapshot.taken /\ snapshot.mutations < MaxMutations

\* result[name][uid] = handle, for a handle the caller built or copied and
\* changed (a map element's fields are written by storing a changed copy)
SnapshotStore(name, uid, n) ==
    /\ CanMutate
    /\ LET old == IF Present(snapshot.value, name, uid)
                  THEN snapshot.value[name][uid]
                  ELSE RayClusterHandle(name, uid, n)
           handle == [old EXCEPT !.RayClusterName = n]
       IN /\ ~Present(snapshot.value, name, uid) \/ handle # old
          /\ snapshot' = [snapshot EXCEPT !.value = storeCluster(@, handle),
                                           !.mutations = @ + 1]
    /\ UNCHANGED <<regVars, m, calls, lastCall, ext>>

\* delete(result[name], uid)
SnapshotDeleteEntry(name, uid) ==
    /\ CanMutate
    /\ Present(snapshot.value, name, uid)
    /\ snapshot' = [snapshot EXCEPT !.value[name] = Remove(@, uid),
                                     !.mutations = @ + 1]
    /\ UNCHANGED <<regVars, m, calls, lastCall, ext>>

\* delete(result, name)
SnapshotDeleteContext(name) ==
    /\ CanMutate
    /\ name \in DOMAIN snapshot.value
    /\ snapshot' = [snapshot EXCEPT !.value = Remove(@, name),
                                     !.mutations = @ + 1]
    /\ UNCHANGED <<regVars, m, calls, lastCall, ext>>

\* *result[name][uid].Port = v
SnapshotWritePort(name, uid, v) ==
    /\ CanMutate
    /\ Present(snapshot.value, name, uid)
    /\ snapshot.value[name][uid].Port # 0
    /\ heap' = [heap EXCEPT ![snapshot.value[name][uid].Port] = v]
    /\ snapshot' = [snapshot EXCEPT !.mutations = @ + 1]
    /\ UNCHANGED <<allocated, mapping, clusterTree, forwardStopFns, tunnels, crashed,
                   m, calls, lastCall, ext>>

SnapshotMutation ==
    \/ \E c \in Contexts, u \in UIDs, n \in Names : SnapshotStore(c, u, n)
    \/ \E c \in Contexts, u \in UIDs : SnapshotDeleteEntry(c, u)
    \/ \E c \in Contexts : SnapshotDeleteContext(c)
    \/ \E c \in Contexts, u \in UIDs, v \in WrittenPorts : SnapshotWritePort(c, u, v)

\* the registry is built up first; the caller then takes List() and works on
\* the value while no registry call runs
NextList ==
    \/ ~snapshot.taken /\ \E cluster \in InputHandles : Insert(cluster)
    \/ ~snapshot.taken /\ \E c \in Contexts, u \in UIDs : Delete(c, u)
    \/ ~snapshot.taken /\ \E c \in Contexts : DeleteContext(c)
    \/ ListCall
    \/ \E c \in Contexts, u \in UIDs, n \in Names : SnapshotStore(c, u, n)
    \/ \E c \in Contexts, u \in UIDs : SnapshotDeleteEntry(c, u)
    \/ \E c \in Contexts : SnapshotDeleteContext(c)
    \/ \E c \in Contexts, u \in UIDs, v \in WrittenPorts : SnapshotWritePort(c, u, v)

SpecList == Init /\ [][NextList]_vars

\* ============ SpecAlloc: the port allocator called on its own ============
\* the uids handed to the allocator
AllocUids == 1..(2 * MaxUids)

AllocateCall(uid) ==
    /\ SetReg(Allocate(Reg, uid))
    /\ lastCall' = [op |-> IF uid \in DOMAIN mapping
                           THEN "Allocate (mapped)" ELSE "Allocate",
                    found |-> Allocate(Reg, uid).mapping[uid]]
    /\ UNCHANGED <<m, calls, snapshot, ext>>

DeallocateCall(uid) ==
    /\ SetReg(Deallocate(Reg, uid))
    /\ lastCall' = [op |-> "Deallocate",
                    found |-> IF uid \in DOMAIN mapping THEN mapping[uid] ELSE 0]
    /\ UNCHANGED <<m, calls, snapshot, ext>>

NextAlloc ==
    \/ \E uid \in AllocUids : AllocateCall(uid)
    \/ \E uid \in AllocUids : DeallocateCall(uid)

SpecAlloc == Init /\ [][NextAlloc]_vars

\* ============ SpecMatch: the registry API together with FuzzyMatch ============
\* cluster names that share a prefix, differ after it, or share none
MatchNames == Names \cup {<<1, 2>>, <<2>>}

\* the prefixes asked for: the empty one, whole names, and one no name has
Prefixes == {<<>>, <<2, 2>>} \cup MatchNames

\* one service per uid, seen in its context, under any of the names
MatchHandles == {RayClusterHandle(Home(u), u, n) : u \in UIDs, n \in MatchNames}

FuzzyMatchCall(in) ==
    /\ ~crashed
    /\ \E order \in RangeOrders(clusterTree) :
           lastCall' = [op |-> "FuzzyMatch",
                        found |-> Len(FuzzyMatch(clusterTree, in, order))]
    /\ UNCHANGED <<regVars, m, calls, snapshot, ext>>

NextMatch ==
    \/ \E cluster \in MatchHandles : Insert(cluster)
    \/ \E c \in Contexts, u \in UIDs : Delete(c, u)
    \/ \E c \in Contexts : DeleteContext(c)
    \/ \E in \in Prefixes : FuzzyMatchCall(in)

SpecMatch == Init /\ [][NextMatch]_vars

\* ============ SpecDiscovery: context discovery and the reconcilers ============
WatchIds == 1..MaxWatches

\* the kubeconfig contexts a listing can return
Listings == SUBSET Contexts

\* the head services of a context
ServicesOf(name) == {u \in UIDs : Home(u) = name}

makeHandle(contextName, uid) == RayClusterHandle(contextName, uid, NameOf(uid))

EventTypes == {"ADDED", "DELETED", "MODIFIED", "BOOKMARK"}

\* the resource versions the API server hands out
Versions == 1..MaxVersion

NoEvent == [type |-> "none", uid |-> 0, rv |-> 0]

\* a reconciler at the top of watchRayClusters: where it is, the items of the
\* initial list it has still to go through, the event it received last and
\* its resourceVersion
NewReconciler == [pc |-> "list", todo |-> {}, ev |-> NoEvent, resourceVersion |-> 0]

\* the services whose name ends in "-head"; the object of a bookmark (uid 0)
\* has no name
HeadSuffix(uid) == uid % 2 = 1

\* the filter of reconciler k: the first takes every service, the second
\* those with strings.HasSuffix(s.GetName(), "-head")
filter(k, uid) == k = 1 \/ HeadSuffix(uid)

Reconcilers == {1, 2}

\* watchClients, the initial listing: discoverKubeconfigs returns the listing
\* or fails (clients is then nil); every listed context is to be sent as added
watchClientsInitial(listing, ok) ==
    /\ ~crashed
    /\ ~watcher.started
    /\ LET clients == IF ok THEN listing ELSE {}
       IN watcher' = [started |-> TRUE, prevClients |-> clients, toAdd |-> clients,
                      toDelete |-> {}, ok |-> ok,
                      listed |-> IF ok THEN listing ELSE watcher.listed]
    /\ UNCHANGED <<regVars, m, calls, snapshot, lastCall, resp, lockVars, watchClusterStopFns, watches>>

\* watchClients, case <-ticker.C, after the events of the tick before have
\* been sent: list again, compare with prevClients, prevClients = clients
watchClientsTick(listing, ok) ==
    /\ ~crashed
    /\ watcher.started
    /\ watcher.toAdd = {} /\ watcher.toDelete = {}
    /\ LET clients == IF ok THEN listing ELSE {}
       IN watcher' = [started |-> TRUE, prevClients |-> clients,
                      toAdd |-> clients \ watcher.prevClients,
                      toDelete |-> watcher.prevClients \ clients, ok |-> ok,
                      listed |-> IF ok THEN listing ELSE watcher.listed]
    /\ UNCHANGED <<regVars, m, calls, snapshot, lastCall, resp, lockVars, watchClusterStopFns, watches>>

\* WatchAllContexts, case ev := <-clientsAdded: a watchCtx, its cancel func
\* recorded under the context name, two reconcilers and the goroutine that
\* waits for watchCtx.Done()
ClientAdded(name) ==
    /\ ~crashed
    /\ name \in watcher.toAdd
    /\ Cardinality(DOMAIN watches) < MaxWatches
    /\ LET id == Cardinality(DOMAIN watches) + 1
       IN /\ watches' = Put(watches, id,
                 [ContextName |-> name, cancelled |-> FALSE, teardown |-> "wait",
                  recs |-> [k \in Reconcilers |-> NewReconciler]])
          /\ watchClusterStopFns' = Put(watchClusterStopFns, name, id)
    /\ watcher' = [watcher EXCEPT !.toAdd = @ \ {name}]
    /\ UNCHANGED <<regVars, m, calls, snapshot, lastCall, resp, lockVars>>

\* cancelling a watchCtx cancels the contexts of the tunnels derived from it
CancelChildren(tuns, id) ==
    [t \in DOMAIN tuns |->
        IF tuns[t].ctx = id THEN [tuns[t] EXCEPT !.cancelled = TRUE] ELSE tuns[t]]

\* WatchAllContexts, case ev := <-clientsDeleted: the deleted events are sent
\* after the added ones of the tick; watchClusterStopFns[name]() is called
ClientDeleted(name) ==
    /\ ~crashed
    /\ watcher.toAdd = {}
    /\ name \in watcher.toDelete
    /\ name \in DOMAIN watchClusterStopFns
    /\ watches' = [watches EXCEPT ![watchClusterStopFns[name]].cancelled = TRUE]
    /\ tunnels' = CancelChildren(tunnels, watchClusterStopFns[name])
    /\ watcher' = [watcher EXCEPT !.toDelete = @ \ {name}]
    /\ UNCHANGED <<allocated, mapping, clusterTree, forwardStopFns, heap, crashed,
                   m, calls, snapshot, lastCall, resp, lockVars, watchClusterStopFns>>

\* "<-watchCtx.Done(); indexer.DeleteContext(ev.contextName)"
Teardown(id) ==
    /\ ~crashed
    /\ id \in DOMAIN watches
    /\ watches[id].cancelled
    /\ watches[id].teardown = "wait"
    /\ \E order \in Orders(UidsUnder(clusterTree, watches[id].ContextName)) :
           SetReg(DeleteContextOp(Reg, watches[id].ContextName, order))
    /\ watches' = [watches EXCEPT ![id].teardown = "done"]
    /\ UNCHANGED <<m, calls, snapshot, lastCall, resp, lockVars, watcher, watchClusterStopFns>>

\* ---- watchRayClusters: one reconciler k of watch id ----
At(id, k, pc) ==
    /\ ~crashed
    /\ id \in DOMAIN watches
    /\ watches[id].recs[k].pc = pc

\* the reconciler moves on and touches nothing else
Goto(id, k, rec) ==
    /\ watches' = [watches EXCEPT ![id].recs[k] = rec]
    /\ UNCHANGED <<regVars, m, calls, snapshot, lastCall, resp, lockVars, watcher, watchClusterStopFns>>

\* the watchCtx as Insert receives it
WatchCtx(id) == [id |-> id, cancelled |-> watches[id].cancelled]

\* Services(...).List(ctx, ...) returns the items; with a cancelled ctx it
\* fails; "resourceVersion := initialList.ResourceVersion"
InitialList(id, k, items, rv) ==
    /\ At(id, k, "list")
    /\ ~watches[id].cancelled
    /\ items \subseteq ServicesOf(watches[id].ContextName)
    /\ Goto(id, k, [pc |-> IF items = {} THEN "check" ELSE "items",
                     todo |-> items, ev |-> NoEvent, resourceVersion |-> rv])

\* List fails: log, then "<-time.After(5 * time.Second)"
InitialListFail(id, k) ==
    /\ At(id, k, "list")
    /\ Goto(id, k, [watches[id].recs[k] EXCEPT !.pc = "listSleep"])

\* the retry delay is over: the for loop calls List again
InitialListWake(id, k) ==
    /\ At(id, k, "listSleep")
    /\ Goto(id, k, [watches[id].recs[k] EXCEPT !.pc = "list"])

\* the registry call of a reconciler and its move to the next statement
Reconcile(id, k, r, rec) ==
    /\ SetReg(r)
    /\ watches' = [watches EXCEPT ![id].recs[k] = rec]
    /\ UNCHANGED <<m, calls, snapshot, lastCall, resp, lockVars, watcher, watchClusterStopFns>>

\* "for _, service := range initialList.Items": a service the filter drops
\* is skipped, for the others indexer.Insert(ctx, makeHandle(...))
InsertListed(id, k, uid) ==
    /\ At(id, k, "items")
    /\ uid \in watches[id].recs[k].todo
    /\ filter(k, uid) =>
          (Present(clusterTree, watches[id].ContextName, uid) \/ NextId(Reg) \in TunnelIds)
    /\ Reconcile(id, k,
                 IF filter(k, uid)
                 THEN InsertCtx(Reg, WatchCtx(id), makeHandle(watches[id].ContextName, uid))
                 ELSE Reg,
                 [watches[id].recs[k] EXCEPT
                     !.pc = IF watches[id].recs[k].todo = {uid} THEN "check" ELSE "items",
                     !.todo = @ \ {uid}])

\* "for ctx.Err() == nil" fails: the reconciler returns
WatchExit(id, k) ==
    /\ At(id, k, "check")
    /\ watches[id].cancelled
    /\ Goto(id, k, [watches[id].recs[k] EXCEPT !.pc = "done"])

\* Services(...).Watch(ctx, ...) opens the stream
WatchOpen(id, k) ==
    /\ At(id, k, "check")
    /\ ~watches[id].cancelled
    /\ Goto(id, k, [watches[id].recs[k] EXCEPT !.pc = "events"])

\* Watch fails: log, "<-time.After(5 * time.Second)"
WatchOpenFail(id, k) ==
    /\ At(id, k, "check")
    /\ ~watches[id].cancelled
    /\ Goto(id, k, [watches[id].recs[k] EXCEPT !.pc = "openSleep"])

\* "continue" after the retry delay
WatchOpenWake(id, k) ==
    /\ At(id, k, "openSleep")
    /\ Goto(id, k, [watches[id].recs[k] EXCEPT !.pc = "check"])

\* "for event := range watcher.ResultChan()" receives an event that carries
\* a service (a bookmark carries one that has only its resourceVersion); a
\* stream whose ctx is cancelled delivers no further event.
\* "resourceVersion = service.ResourceVersion", then the filter: a service
\* it drops sends the loop to the next event
WatchReceive(id, k, type, uid, rv) ==
    /\ At(id, k, "events")
    /\ ~watches[id].cancelled
    /\ IF type = "BOOKMARK" THEN uid = 0 ELSE uid \in ServicesOf(watches[id].ContextName)
    /\ Goto(id, k, [watches[id].recs[k] EXCEPT
                        !.pc = IF filter(k, uid) THEN "handle" ELSE "events",
                        !.ev = [type |-> type, uid |-> uid, rv |-> rv],
                        !.resourceVersion = rv])

HandleEvent_ModifiedInserts(r, ctx, name, ev) ==
    CASE ev.type \in {"ADDED", "MODIFIED"} -> InsertCtx(r, ctx, makeHandle(name, ev.uid))
      [] ev.type = "DELETED" -> DeleteOp(r, name, ev.uid)
      [] OTHER -> r

\* "switch event.Type": Insert, Delete, or nothing
HandleEvent(r, ctx, name, ev) ==
    CASE ev.type = "ADDED" -> InsertCtx(r, ctx, makeHandle(name, ev.uid))
      [] ev.type = "DELETED" -> DeleteOp(r, name, ev.uid)
      [] OTHER -> r

\* the event in hand goes through the switch; the loop takes the next event
WatchHandle(id, k) ==
    /\ At(id, k, "handle")
    /\ LET ev == watches[id].recs[k].ev
           name == watches[id].ContextName
       IN /\ ev.type = "ADDED" =>
                (Present(clusterTree, name, ev.uid) \/ NextId(Reg) \in TunnelIds)
          /\ Reconcile(id, k, HandleEvent(Reg, WatchCtx(id), name, ev),
                       [watches[id].recs[k] EXCEPT !.pc = "events"])

\* the result channel is closed: log, back to the loop condition
WatchClosed(id, k) ==
    /\ At(id, k, "events")
    /\ Goto(id, k, [watches[id].recs[k] EXCEPT !.pc = "check"])

\* all the steps of one reconciler
watchRayClusters(id, k) ==
    \/ \E items \in SUBSET UIDs, rv \in Versions : InitialList(id, k, items, rv)
    \/ InitialListFail(id, k)
    \/ InitialListWake(id, k)
    \/ \E uid \in UIDs : InsertListed(id, k, uid)
    \/ WatchExit(id, k)
    \/ WatchOpen(id, k)
    \/ WatchOpenFail(id, k)
    \/ WatchOpenWake(id, k)
    \/ \E type \in EventTypes, uid \in UIDs \cup {0}, rv \in Versions :
           WatchReceive(id, k, type, uid, rv)
    \/ WatchHandle(id, k)
    \/ WatchClosed(id, k)

\* the first context that is added is followed through its whole life
NextDiscovery ==
    \/ \E listing \in Listings, ok \in BOOLEAN : watchClientsInitial(listing, ok)
    \/ \E listing \in Listings, ok \in BOOLEAN : watchClientsTick(listing, ok)
    \/ \E name \in Contexts : watches = EmptyMap /\ ClientAdded(name)
    \/ \E name \in Contexts : ClientDeleted(name)
    \/ \E id \in WatchIds : Teardown(id)
    \/ \E id \in WatchIds, k \in Reconcilers, items \in SUBSET UIDs, rv \in Versions :
           InitialList(id, k, items, rv)
    \/ \E id \in WatchIds, k \in Reconcilers : InitialListFail(id, k)
    \/ \E id \in WatchIds, k \in Reconcilers : InitialListWake(id, k)
    \/ \E id \in WatchIds, k \in Reconcilers, uid \in UIDs : InsertListed(id, k, uid)
    \/ \E id \in WatchIds, k \in Reconcilers : WatchExit(id, k)
    \/ \E id \in WatchIds, k \in Reconcilers : WatchOpen(id, k)
    \/ \E id \in WatchIds, k \in Reconcilers : WatchOpenFail(id, k)
    \/ \E id \in WatchIds, k \in Reconcilers : WatchOpenWake(id, k)
    \/ \E id \in WatchIds, k \in Reconcilers, type \in EventTypes, uid \in UIDs \cup {0},
          rv \in Versions :
           WatchReceive(id, k, type, uid, rv)
    \/ \E id \in WatchIds, k \in Reconcilers : WatchHandle(id, k)
    \/ \E id \in WatchIds, k \in Reconcilers : WatchClosed(id, k)

SpecDiscovery == Init /\ [][NextDiscovery]_vars

\* every goroutine that can take a step is scheduled again: each reconciler
\* and each goroutine waiting for watchCtx.Done() keeps running
FairDiscovery ==
    /\ SpecDiscovery
    /\ \A id \in WatchIds : WF_vars(Teardown(id))
    /\ \A id \in WatchIds, k \in Reconcilers : WF_vars(watchRayClusters(id, k))

\* ============ SpecWatch: the reconcilers of one context at work ============
\* one context is listed and stays, its API server answers every call; the
\* other contexts were found before it and are seen through the handles
\* their reconcilers have inserted
NextWatch ==
    \/ \E name \in Contexts : watchClientsInitial({name}, TRUE)
    \/ \E name \in Contexts : ClientAdded(name)
    \/ \E cluster \in ConcHandles :
           /\ cluster.ContextName \notin watcher.listed
           /\ watches = EmptyMap
           /\ Insert(cluster)
    \/ \E id \in WatchIds, k \in Reconcilers, items \in SUBSET UIDs, rv \in Versions :
           InitialList(id, k, items, rv)
    \/ \E id \in WatchIds, k \in Reconcilers, uid \in UIDs : InsertListed(id, k, uid)
    \/ \E id \in WatchIds, k \in Reconcilers : WatchOpen(id, k)
    \/ \E id \in WatchIds, k \in Reconcilers, type \in EventTypes, uid \in UIDs \cup {0},
          rv \in Versions :
           WatchReceive(id, k, type, uid, rv)
    \/ \E id \in WatchIds, k \in Reconcilers : WatchHandle(id, k)

SpecWatch == Init /\ [][NextWatch]_vars

\* ============ SpecReadd: contexts that go and come back ============
\* every listing succeeds and the API servers answer every call, with all the
\* services of the context at version 1; the change streams stay silent
NextReadd ==
    \/ \E listing \in Listings : watchClientsInitial(listing, TRUE)
    \/ \E listing \in Listings : watchClientsTick(listing, TRUE)
    \/ \E name \in Contexts : ClientAdded(name)
    \/ \E name \in Contexts : ClientDeleted(name)
    \/ \E id \in WatchIds : Teardown(id)
    \/ \E id \in WatchIds, k \in Reconcilers :
           InitialList(id, k, ServicesOf(watches[id].ContextName), 1)
    \/ \E id \in WatchIds, k \in Reconcilers, uid \in UIDs : InsertListed(id, k, uid)
    \/ \E id \in WatchIds, k \in Reconcilers : WatchExit(id, k)
    \/ \E id \in WatchIds, k \in Reconcilers : WatchOpen(id, k)

SpecReadd == Init /\ [][NextReadd]_vars

\* ============ SpecProxy: addBase applied to an upstream response ============
MaxPieces == 3

ContentTypes ==
    {<<>>, TextHtml, TextHtml \o <<";", " ", "c", "h", "a", "r", "s", "e", "t", "=", "u", "t", "f", "-", "8">>,
     <<"t", "e", "x", "t", "/", "p", "l", "a", "i", "n">>, <<"a", "p", "p", "l", "i", "c", "a", "t", "i", "o", "n", "/", "j", "s", "o", "n">>,
     <<"t", "e", "x", "t", "/", "h", "t", "m">>}

\* bodies are put together from pieces: the head tag, parts of it, a head
\* tag in capitals, other text
Pieces == {HeadTag, <<"<", "h", "e", "a", "d">>, <<"<">>, <<"x">>, <<"<", "H", "E", "A", "D", ">">>}

RECURSIVE Flatten(_)
Flatten(ps) == IF ps = <<>> THEN <<>> ELSE Head(ps) \o Flatten(Tail(ps))

Bodies == {Flatten(ps) : ps \in UNION {[1..n -> Pieces] : n \in 0..MaxPieces}}

InitProxy ==
    /\ InitRegistry
    /\ \E slug \in UIDs, typ \in ContentTypes, body \in Bodies :
          resp = [slug |-> slug, in |-> Response(typ, body),
                  out |-> Response(typ, body), done |-> FALSE]
    /\ InitDiscovery

\* proxy.ModifyResponse: addBase(uid) is called with the upstream response
ModifyResponse ==
    /\ resp.slug # 0
    /\ ~resp.done
    /\ resp' = [resp EXCEPT !.out = addBase(resp.slug, resp.in), !.done = TRUE]
    /\ UNCHANGED <<regVars, m, calls, snapshot, lastCall, discVars, lockVars>>

NextProxy == ModifyResponse

SpecProxy == InitProxy /\ [][NextProxy]_vars

\* ======================= claims checked under Spec =======================

\* C1: after any sequence of Insert, Delete and DeleteContext the taken ports
\* are exactly the ports the uids are mapped to, and no two uids share a port
C1_AllocatorBijective ==
    /\ allocated = Image(mapping)
    /\ \A u1, u2 \in DOMAIN mapping : mapping[u1] = mapping[u2] => u1 = u2

\* a uid holds the second port while the first one has been given back
C1_Witness ==
    /\ ~crashed
    /\ lastCall.op \in {"Delete", "DeleteContext"}
    /\ \E u \in DOMAIN mapping : mapping[u] = allocStart + 1
    /\ allocStart \notin allocated

\* C2: Insert of a (contextName, uid) that the first Insert stored returns
\* with the registry, the allocator and the tunnels as the first call left them
C2_InsertIdempotent ==
    \A cluster \in InputHandles :
        LET once == InsertOp(Reg, cluster)
        IN \A n \in Names :
              InsertOp(once, [cluster EXCEPT !.RayClusterName = n]) = once

\* the last call was an Insert of a pair that was already stored
C2_Witness ==
    /\ lastCall.op = "Insert"
    /\ lastCall.found = 1
    /\ \E u \in UIDs : Stored(clusterTree, u) /\ u \in DOMAIN forwardStopFns

\* C3: Delete of a uid stored under no context returns normally and changes
\* neither the tree, the port table nor the stop functions
C3_DeleteAbsentIsNoOp ==
    [][\A c \in Contexts, u \in UIDs :
          (~Stored(clusterTree, u) /\ Delete(c, u)) => UNCHANGED regVars]_vars

\* C4: once DeleteContext(c) has returned, List() has no entry c and no uid
\* that was under c has a port mapping or a stop function
C4_DeleteContextClears ==
    \A c \in Contexts : \A order \in Orders(UidsUnder(clusterTree, c)) :
        LET after == DeleteContextOp(Reg, c, order)
        IN ~after.crashed =>
              /\ c \notin DOMAIN List(after)
              /\ \A u \in UidsUnder(clusterTree, c) :
                    u \notin DOMAIN after.mapping /\ u \notin DOMAIN after.stopFns

\* DeleteContext has returned from sweeping a context that held two handles
C4_Witness ==
    /\ ~crashed
    /\ lastCall.op = "DeleteContext"
    /\ lastCall.found = 2
    /\ \E c \in Contexts :
          /\ c \notin DOMAIN clusterTree
          /\ Cardinality({t \in DOMAIN tunnels :
                             tunnels[t].ContextName = c /\ tunnels[t].cancelled}) = 2

\* C6: between calls a stop function is recorded for a uid exactly when a
\* handle with that uid is stored under some context
C6_StopFnIffStored ==
    ~crashed =>
        \A u \in UIDs : (u \in DOMAIN forwardStopFns) <=> Stored(clusterTree, u)

\* C13: after Insert of a uid stored nowhere and the Delete for it, the uid is
\* absent from List() and its port is not taken; the next Insert of another
\* uid without a port is assigned that same port; Deallocate of a uid with no
\* mapping changes nothing
C13_DeleteFreesPortForReuse ==
    ~crashed =>
        /\ \A cluster \in InputHandles :
              ~Stored(clusterTree, cluster.UID) =>
                 LET inserted == InsertOp(Reg, cluster)
                     port == inserted.mapping[cluster.UID]
                     deleted == DeleteOp(inserted, cluster.ContextName, cluster.UID)
                 IN /\ ~deleted.crashed
                    /\ ~Stored(List(deleted), cluster.UID)
                    /\ port \notin deleted.allocated
                    /\ cluster.UID \notin DOMAIN deleted.mapping
                    /\ \A other \in InputHandles :
                          (/\ other.UID # cluster.UID
                           /\ other.UID \notin DOMAIN deleted.mapping
                           /\ ~Present(deleted.tree, other.ContextName, other.UID))
                              => InsertOp(deleted, other).mapping[other.UID] = port
        /\ \A uid \in UIDs : uid \notin DOMAIN mapping => Deallocate(Reg, uid) = Reg

\* a uid was inserted and deleted, and the Insert of another uid has just
\* been given the port of the first
C13_Witness ==
    /\ ~crashed
    /\ lastCall.op = "Insert"
    /\ lastCall.found = 0
    /\ \E t1, t2 \in DOMAIN tunnels :
          /\ t1 < t2
          /\ tunnels[t1].uid # tunnels[t2].uid
          /\ tunnels[t1].cancelled
          /\ ~Stored(clusterTree, tunnels[t1].uid)
          /\ tunnels[t1].port = tunnels[t2].port
          /\ tunnels[t2].uid \in DOMAIN mapping
          /\ mapping[tunnels[t2].uid] = tunnels[t1].port

\* C27: every handle stored in the tree has its Port set, the port is the
\* one the allocator maps the handle's uid to, and stored handles of different
\* uids carry different ports
C27_StoredPortIsMappedPort ==
    ~crashed =>
        /\ \A e \in Entries(clusterTree) :
              LET handle == clusterTree[e[1]][e[2]]
              IN /\ handle.Port # 0
                 /\ handle.UID \in DOMAIN mapping
                 /\ heap[handle.Port] = mapping[handle.UID]
        /\ \A e1, e2 \in Entries(clusterTree) :
              LET h1 == clusterTree[e1[1]][e1[2]]
                  h2 == clusterTree[e2[1]][e2[2]]
              IN (h1.UID # h2.UID /\ h1.Port # 0 /\ h2.Port # 0)
                    => heap[h1.Port] # heap[h2.Port]

\* ==================== claims checked under SpecTunnel ====================

Running(t) == t \in DOMAIN tunnels /\ tunnels[t].pc = "run"

\* C8: while a forwarding subprocess runs its port is taken by its uid, and no
\* two running subprocesses of different uids have the same port
C8_NoPortFreeWhileSubprocessRuns ==
    /\ \A t \in TunnelIds :
          Running(t) => /\ tunnels[t].port \in allocated
                        /\ tunnels[t].uid \in DOMAIN mapping
                        /\ mapping[tunnels[t].uid] = tunnels[t].port
    /\ \A t1, t2 \in TunnelIds :
          (Running(t1) /\ Running(t2) /\ tunnels[t1].uid # tunnels[t2].uid)
              => tunnels[t1].port # tunnels[t2].port

\* C15: cancelling a tunnel's token interrupts the backoff sleep instead of
\* letting it run to completion, and no subprocess is launched afterwards
C15_CancelInterruptsSleep ==
    [][\A t \in TunnelIds :
          /\ PortForwardWake(t) => ~tunnels[t].cancelled
          /\ PortForwardLaunch(t) => ~tunnels[t].cancelled]_vars

\* ==================== claims checked under SpecBackoff ====================

\* C14: a failure within the quiet window of the previous one doubles the
\* delay, or sets it to the ceiling when the double would exceed it; a failure
\* after a longer gap sets the delay to the initial 10 ms; no delay exceeds
\* the ceiling
C14_BackoffDoublesToCeiling ==
    [][\A t \in TunnelIds, ran \in RunTimes :
          (PortForwardExitErr(t, ran) /\ ~tunnels[t].cancelled) =>
              LET previous == tunnels[t].slept
                  gap == previous + ran
                  delay == tunnels'[t].slept
              IN /\ delay <= maxBackoff
                 /\ gap > quietWindow => delay = initBackoff
                 /\ (gap <= quietWindow /\ previous # 0) =>
                       delay = IF 2 * previous <= maxBackoff
                               THEN 2 * previous ELSE maxBackoff]_vars

\* failures in quick succession have brought the delay up to the ceiling
C14_Witness ==
    \E t \in DOMAIN tunnels :
        /\ tunnels[t].pc = "sleep"
        /\ tunnels[t].slept = maxBackoff

\* C24: while its token is not triggered, every exit of the subprocess,
\* with an error or clean, sends the supervisor into a backoff delay before
\* the next launch, and the supervisor returns only once the token is triggered
C24_EveryExitBacksOff ==
    [][\A t \in TunnelIds :
          /\ ((PortForwardExitOk(t) \/ \E ran \in RunTimes : PortForwardExitErr(t, ran))
                 /\ ~tunnels[t].cancelled)
                => tunnels'[t].pc = "sleep"
          /\ (PortForwardReturn(t) \/ \E ran \in RunTimes : PortForwardExitErr(t, ran))
                => (tunnels'[t].pc = "done" => tunnels[t].cancelled)]_vars

\* ===================== claims checked under SpecConc =====================

\* C5: an Insert racing DeleteContext of its context lands before or after
\* the sweep: outside the critical sections every stored handle has a stop
\* function and a port, and the context entry that DeleteContext drops holds
\* no handle whose port or tunnel is still allocated
C5_InsertLandsBeforeOrAfterSweep ==
    ~crashed =>
        /\ m = 0 =>
              \A u \in UIDs : Stored(clusterTree, u) =>
                  u \in DOMAIN forwardStopFns /\ u \in DOMAIN mapping
        /\ \A p \in Procs : calls[p].pc = "DC_drop" =>
              \A u \in UidsUnder(clusterTree, calls[p].ContextName) :
                  u \notin DOMAIN forwardStopFns /\ u \notin DOMAIN mapping

\* C7: within Delete, as long as the tunnel's cancel function has not been
\* invoked the uid keeps its port mapping and its handle stays in the tree
C7_CancelBeforeRemoval ==
    \A p \in Procs :
        calls[p].pc \in {"D_dealloc", "D_stop", "D_tree"} =>
            LET uid == calls[p].UID
            IN (uid \in DOMAIN forwardStopFns /\ ~tunnels[forwardStopFns[uid]].cancelled)
                  => /\ calls[p].hadPort => uid \in DOMAIN mapping
                     /\ calls[p].hadHandle => Present(clusterTree, calls[p].ContextName, uid)

LiveTunnels(u) == {t \in DOMAIN tunnels : tunnels[t].uid = u /\ ~tunnels[t].cancelled}

\* C9: once the concurrent Insert calls have returned, a stored uid has one
\* port and exactly one tunnel task that is not cancelled, and every such task
\* is the one its uid's recorded stop function stops
C9_DuplicateCheckRaceIsBenign ==
    (~crashed /\ \A p \in Procs : calls[p] = Idle) =>
        \A u \in UIDs :
            /\ Stored(clusterTree, u) =>
                  Cardinality(LiveTunnels(u)) = 1 /\ u \in DOMAIN mapping
            /\ \A t \in LiveTunnels(u) :
                  u \in DOMAIN forwardStopFns /\ forwardStopFns[u] = t

\* ===================== claims checked under FairConc =====================

C10_ListIsIndependent ==
    [][SnapshotMutation => Reported(clusterTree', heap') = Reported(clusterTree, heap)]_vars

\* ===================== claims checked under SpecMatch =====================

StartsWith(name, x) ==
    /\ Len(x) <= Len(name)
    /\ \A i \in 1..Len(x) : name[i] = x[i]

\* C11: for every prefix x FuzzyMatch(x) returns the stored handles whose
\* cluster name starts with x and no others, each of them once; FuzzyMatch("")
\* returns as many handles as the registry holds
C11_FuzzyMatchExact ==
    \A in \in Prefixes : \A order \in RangeOrders(clusterTree) :
        LET result == FuzzyMatch(clusterTree, in, order)
        IN /\ \A i \in DOMAIN result :
                 \E e \in Entries(clusterTree) :
                     /\ result[i] = clusterTree[e[1]][e[2]]
                     /\ StartsWith(result[i].RayClusterName, in)
           /\ \A e \in Entries(clusterTree) :
                 StartsWith(clusterTree[e[1]][e[2]].RayClusterName, in) =>
                     Cardinality({i \in DOMAIN result :
                                     result[i] = clusterTree[e[1]][e[2]]}) = 1
           /\ in = <<>> => Len(result) = Cardinality(Entries(clusterTree))

\* FuzzyMatch returned two handles of the same name, stored under different
\* contexts and uids
C11_Witness ==
    /\ lastCall.op = "FuzzyMatch"
    /\ lastCall.found = 2
    /\ \E e1, e2 \in Entries(clusterTree) :
          /\ e1[1] # e2[1] /\ e1[2] # e2[2]
          /\ clusterTree[e1[1]][e1[2]].RayClusterName
                = clusterTree[e2[1]][e2[2]].RayClusterName

\* ===================== claims checked under SpecAlloc =====================

\* C12: Allocate(uid) of a mapped uid returns its port and changes nothing;
\* of an unmapped uid it returns the smallest port >= the base port that is not
\* taken, marks it taken and records uid -> port
C12_AllocateIdempotentLowestFirst ==
    \A uid \in AllocUids :
        LET after == Allocate(Reg, uid)
            port == after.mapping[uid]
        IN IF uid \in DOMAIN mapping
           THEN after = Reg /\ port = mapping[uid]
           ELSE /\ port >= allocStart
                /\ port \notin allocated
                /\ \A q \in allocStart..(port - 1) : q \in allocated
                /\ after.allocated = allocated \cup {port}
                /\ after.mapping = Put(mapping, uid, port)

\* Allocate of an unmapped uid returned a port below one that is taken
C12_Witness ==
    /\ lastCall.op = "Allocate"
    /\ lastCall.found = allocStart + 1
    /\ allocStart + 2 \in allocated
    /\ \E uid \in DOMAIN mapping : mapping[uid] = lastCall.found

\* ===================== claims checked under SpecProxy =====================

\* the body holds an opening head tag at position i and none before it
FirstHeadAt(body, i) ==
    /\ i \in 1..(Len(body) - 5)
    /\ SubSeq(body, i, i + 5) = HeadTag
    /\ \A j \in 1..(i - 1) : SubSeq(body, j, j + 5) # HeadTag

LiveContexts == {watches[id].ContextName : id \in {i \in DOMAIN watches : ~watches[i].cancelled}}

WatcherIdle == watcher.started /\ watcher.toAdd = {} /\ watcher.toDelete = {}

\* C18: once the added and removed events of a tick have been handled, the
\* contexts with a live reconciler are the contexts of the most recent listing
C18_LiveReconcilersFollowListing ==
    WatcherIdle => LiveContexts = watcher.listed

\* C19: no 'removed' event is emitted and no reconciler is cancelled in a
\* tick whose listing failed
C19_FailedListingRemovesNothing ==
    [][\A name \in Contexts : ClientDeleted(name) => watcher.ok]_vars

\* the watch of a removed context has finished: its reconcilers have
\* returned and its DeleteContext call has returned
Finished(id) ==
    /\ watches[id].cancelled
    /\ watches[id].teardown = "done"
    /\ \A k \in Reconcilers : watches[id].recs[k].pc = "done"

\* C16: when the work of a removed context's watch has come to its end, the
\* registry holds no handle under the context, the allocator no port for
\* its uids, and every tunnel of the context is cancelled
C16_RemovedContextLeavesNothing ==
    ~crashed =>
        \A id \in DOMAIN watches :
            Finished(id) =>
                /\ UidsUnder(clusterTree, watches[id].ContextName) = {}
                /\ \A u \in ServicesOf(watches[id].ContextName) : u \notin DOMAIN mapping
                /\ \A t \in DOMAIN tunnels :
                      tunnels[t].ContextName = watches[id].ContextName => tunnels[t].cancelled

\* C21: a reconciler whose cancellation token has fired issues no Insert and
\* no Delete, neither for the remaining items of its initial listing nor for
\* an event it still holds
C21_NoMutationAfterCancel ==
    [][\A id \in WatchIds, k \in Reconcilers :
          (\/ \E uid \in UIDs : filter(k, uid) /\ InsertListed(id, k, uid)
           \/ WatchHandle(id, k) /\ watches[id].recs[k].ev.type \in {"ADDED", "DELETED"})
              => ~watches[id].cancelled]_vars

\* C22: every service event sets the resume marker to the event's version,
\* passing the filter or not, and an event the filter drops goes no further;
\* of the events that pass, Added stores the service's handle as one Insert
\* does, Deleted removes the uid as one Delete does, and every other kind
\* leaves registry, port table and tunnels as they are
C22_EventHandling ==
    [][\A id \in WatchIds, k \in Reconcilers :
          /\ At(id, k, "events") =>
                LET event == watches'[id].recs[k].ev
                IN WatchReceive(id, k, event.type, event.uid, event.rv) =>
                      /\ watches'[id].recs[k].resourceVersion = event.rv
                      /\ ~filter(k, event.uid) =>
                            watches'[id].recs[k].pc = "events" /\ UNCHANGED regVars
          /\ (At(id, k, "handle") /\ WatchHandle(id, k)) =>
                LET ev == watches[id].recs[k].ev
                    name == watches[id].ContextName
                    others == Entries(clusterTree) \ {<<name, ev.uid>>}
                    kept == /\ Entries(clusterTree') \ {<<name, ev.uid>>} = others
                            /\ \A e \in others : clusterTree'[e[1]][e[2]] = clusterTree[e[1]][e[2]]
                            /\ \A u \in UIDs \ {ev.uid} :
                                  /\ u \in DOMAIN mapping' <=> u \in DOMAIN mapping
                                  /\ u \in DOMAIN mapping => mapping'[u] = mapping[u]
                IN CASE ev.type = "ADDED" ->
                          IF Present(clusterTree, name, ev.uid)
                          THEN UNCHANGED regVars
                          ELSE /\ kept
                               /\ Present(clusterTree', name, ev.uid)
                               /\ clusterTree'[name][ev.uid].UID = ev.uid
                               /\ clusterTree'[name][ev.uid].ContextName = name
                               /\ ev.uid \in DOMAIN mapping'
                               /\ Cardinality(DOMAIN tunnels') = Cardinality(DOMAIN tunnels) + 1
                               /\ ev.uid \in DOMAIN forwardStopFns'
                               /\ tunnels'[forwardStopFns'[ev.uid]].uid = ev.uid
                     [] ev.type = "DELETED" ->
                          \/ crashed'
                          \/ /\ kept
                             /\ ~Present(clusterTree', name, ev.uid)
                             /\ ev.uid \notin DOMAIN mapping'
                             /\ ev.uid \notin DOMAIN forwardStopFns'
                             /\ DOMAIN tunnels' = DOMAIN tunnels
                     [] OTHER -> UNCHANGED regVars]_vars

\* a reconciler has handled the Deleted event of a service it had inserted,
\* its resume marker is the version of that event, and the handle of another
\* context is still stored
C22_Witness ==
    /\ ~crashed
    /\ \E e \in Entries(clusterTree) : e[1] \notin watcher.listed
    /\ \E id \in DOMAIN watches, k \in Reconcilers :
          LET rec == watches[id].recs[k]
          IN /\ rec.pc = "events"
             /\ rec.ev.type = "DELETED"
             /\ filter(k, rec.ev.uid)
             /\ rec.resourceVersion = MaxVersion
             /\ ~Stored(clusterTree, rec.ev.uid)
             /\ \E t \in DOMAIN tunnels :
                   tunnels[t].uid = rec.ev.uid /\ tunnels[t].ctx = id /\ tunnels[t].cancelled
                      /\ ~watches[id].cancelled

\* C23: a reconciler whose token has not fired goes into the retry delay
\* when the stream fails to open and when an open stream closes, so that no
\* stream is opened right after a failure or a closure; the stream is opened
\* from the version of the last event received
C23_RetryDelayBeforeReopen ==
    [][\A id \in WatchIds, k \in Reconcilers :
          /\ ((WatchOpenFail(id, k) \/ WatchClosed(id, k)) /\ ~watches[id].cancelled)
                => watches'[id].recs[k].pc = "openSleep"
          /\ (WatchOpen(id, k) /\ watches[id].recs[k].ev # NoEvent)
                => watches[id].recs[k].resourceVersion = watches[id].recs[k].ev.rv]_vars

\* ===================== claims checked under SpecReadd =====================

\* C26: the DeleteContext that belongs to the watch of a removed context
\* leaves the clusters inserted by the reconcilers of another watch alone:
\* they keep their handle, their port and their tunnel, which is not cancelled
C26_OldTeardownSparesNewClusters ==
    [][\A id \in WatchIds :
          Teardown(id) =>
              \A t \in DOMAIN tunnels :
                  LET u == tunnels[t].uid
                      name == tunnels[t].ContextName
                  IN (/\ tunnels[t].ctx # id
                      /\ ~tunnels[t].cancelled
                      /\ u \in DOMAIN forwardStopFns /\ forwardStopFns[u] = t
                      /\ Present(clusterTree, name, u))
                        => /\ Present(clusterTree', name, u)
                           /\ u \in DOMAIN mapping' /\ mapping'[u] = mapping[u]
                           /\ u \in DOMAIN forwardStopFns'
                           /\ ~tunnels'[t].cancelled]_vars

\* =================== claims checked under FairDiscovery ===================

\* no further tunnel can be started within the bound of the model
TunnelsExhausted == NextId(Reg) \notin TunnelIds

\* C20: a reconciler whose cancellation token has fired eventually returns,
\* from whichever phase it is in
C20_CancelledReconcilerExits ==
    \A id \in WatchIds, k \in Reconcilers :
        (id \in DOMAIN watches /\ watches[id].cancelled /\ ~crashed)
            ~> \/ crashed
               \/ TunnelsExhausted
               \/ id \in DOMAIN watches /\ watches[id].recs[k].pc = "done"

====
